---- MODULE Spec2Model ----
(***************************************************************************)
(* Layered configuration resolution (ReadConfig + zod schema) and the      *)
(* startup sequence that consumes it.                                      *)
(*                                                                         *)
(* Strings are sequences of one-character strings so that the string       *)
(* conversions of the source (toLowerCase, toCamelCase, split, Number,     *)
(* path.join(".")) are computed, not assumed.                              *)
(*                                                                         *)
(* A JavaScript value is a tagged record:                                  *)
(*   [t |-> "undef"]            undefined (an absent key)                  *)
(*   [t |-> "null"]             null                                       *)
(*   [t |-> "bool", v |-> b]    a boolean                                  *)
(*   [t |-> "num", v |-> n, d |-> k]   the number n + k/10 (k in 0..9)     *)
(*   [t |-> "nan"]              NaN                                        *)
(*   [t |-> "str", v |-> s]     a string                                   *)
(*   [t |-> "map", kv |-> f]    a plain object, f a function from keys     *)
(*   [t |-> "arr", v |-> q, kv |-> f]  an array q with own properties f    *)
(***************************************************************************)
EXTENDS Integers, Sequences, FiniteSets, TLC

(***************************************************************************)
(* Characters and strings                                                  *)
(***************************************************************************)
LowerChars ==
  <<"a","b","c","d","e","f","g","h","i","j","k","l","m",
    "n","o","p","q","r","s","t","u","v","w","x","y","z">>

UpperChars ==
  <<"A","B","C","D","E","F","G","H","I","J","K","L","M",
    "N","O","P","Q","R","S","T","U","V","W","X","Y","Z">>

DigitChars == <<"0","1","2","3","4","5","6","7","8","9">>

IsIn(c, chars) == \E i \in 1..Len(chars) : chars[i] = c

IndexOf(c, chars) == CHOOSE i \in 1..Len(chars) : chars[i] = c

toLowerChar(c) == IF IsIn(c, UpperChars) THEN LowerChars[IndexOf(c, UpperChars)] ELSE c

toUpperChar(c) == IF IsIn(c, LowerChars) THEN UpperChars[IndexOf(c, LowerChars)] ELSE c

\* String.prototype.toLowerCase
toLowerCase(s) == [i \in 1..Len(s) |-> toLowerChar(s[i])]

\* s.slice(i - 1): the suffix of s from (1-based) position i
Drop(s, i) == SubSeq(s, i, Len(s))

\* String.prototype.startsWith
startsWith(s, p) == Len(p) <= Len(s) /\ SubSeq(s, 1, Len(p)) = p

\* the set of (1-based) positions at which p occurs in s
Occurrences(s, p) ==
  {i \in 1..(Len(s) - Len(p) + 1) : SubSeq(s, i, i + Len(p) - 1) = p}

Min(S) == CHOOSE x \in S : \A y \in S : x <= y

\* String.prototype.replace(p, ""): removes the first occurrence of p
replaceFirst(s, p) ==
  IF Occurrences(s, p) = {} THEN s
  ELSE LET i == Min(Occurrences(s, p))
       IN  SubSeq(s, 1, i - 1) \o Drop(s, i + Len(p))

\* String.prototype.split(sep), sep non-empty
RECURSIVE split(_, _)
split(s, sep) ==
  IF Occurrences(s, sep) = {} THEN <<s>>
  ELSE LET i == Min(Occurrences(s, sep))
       IN  <<SubSeq(s, 1, i - 1)>> \o split(Drop(s, i + Len(sep)), sep)

\* .replace(/_([a-z])/g, (_, letter) => letter.toUpperCase())
RECURSIVE replaceSnake(_)
replaceSnake(s) ==
  IF s = <<>> THEN <<>>
  ELSE IF s[1] = "_" /\ Len(s) >= 2 /\ IsIn(s[2], LowerChars)
       THEN <<toUpperChar(s[2])>> \o replaceSnake(Drop(s, 3))
       ELSE <<s[1]>> \o replaceSnake(Drop(s, 2))

toCamelCase(str) == replaceSnake(toLowerCase(str))

\* Array.prototype.join(sep) on an array of strings
RECURSIVE join(_, _)
join(parts, sep) ==
  IF parts = <<>> THEN <<>>
  ELSE IF Len(parts) = 1 THEN parts[1]
  ELSE parts[1] \o sep \o join(Tail(parts), sep)

(***************************************************************************)
(* JavaScript values                                                       *)
(***************************************************************************)
Undef == [t |-> "undef"]

Null == [t |-> "null"]

NaN == [t |-> "nan"]

Bool(b) == [t |-> "bool", v |-> b]

Num(n) == [t |-> "num", v |-> n, d |-> 0]

Frac(n, k) == [t |-> "num", v |-> n, d |-> k]

Str(s) == [t |-> "str", v |-> s]

EmptyKV == [k \in {} |-> Undef]

Map(kv) == [t |-> "map", kv |-> kv]

Arr(elems) == [t |-> "arr", v |-> elems, kv |-> EmptyKV]

EmptyMap == Map(EmptyKV)

\* typeof x === "object" (null is excluded by the truthiness test that
\* accompanies it everywhere in the source)
IsObject(x) == x.t \in {"map", "arr"}

\* x[key] for an object x; undefined when the key is absent
Get(x, key) ==
  IF IsObject(x) /\ key \in DOMAIN x.kv THEN x.kv[key] ELSE Undef

Has(x, key) == IsObject(x) /\ key \in DOMAIN x.kv

\* x[key] = val
Set(x, key, val) ==
  [x EXCEPT !.kv = [k \in DOMAIN x.kv \cup {key} |->
                      IF k = key THEN val ELSE x.kv[k]]]

\* value at a path of keys, undefined when the path leaves the tree
RECURSIVE GetPath(_, _)
GetPath(x, path) ==
  IF path = <<>> THEN x ELSE GetPath(Get(x, path[1]), Tail(path))

\* JavaScript truthiness: if (x), !x, Boolean(x)
Truthy(x) ==
  CASE x.t = "undef" -> FALSE
    [] x.t = "null"  -> FALSE
    [] x.t = "nan"   -> FALSE
    [] x.t = "bool"  -> x.v
    [] x.t = "num"   -> x.v # 0 \/ x.d # 0
    [] x.t = "str"   -> x.v # <<>>
    [] OTHER         -> TRUE

\* value of a string of decimal digits
RECURSIVE DigitsValue(_)
DigitsValue(s) ==
  IF s = <<>> THEN 0
  ELSE 10 * DigitsValue(SubSeq(s, 1, Len(s) - 1)) + (IndexOf(s[Len(s)], DigitChars) - 1)

AllDigits(s) == s # <<>> /\ \A i \in 1..Len(s) : IsIn(s[i], DigitChars)

\* Number(str) for the numeric literals used here: "", digits, -digits,
\* digits.digit; every other string is NaN
StringToNumber(s) ==
  IF s = <<>> THEN Num(0)
  ELSE IF AllDigits(s) THEN Num(DigitsValue(s))
  ELSE IF s[1] = "-" /\ AllDigits(Tail(s)) THEN Num(0 - DigitsValue(Tail(s)))
  ELSE IF /\ Len(s) >= 3
          /\ s[Len(s) - 1] = "."
          /\ AllDigits(SubSeq(s, 1, Len(s) - 2))
          /\ IsIn(s[Len(s)], DigitChars)
       THEN Frac(DigitsValue(SubSeq(s, 1, Len(s) - 2)), IndexOf(s[Len(s)], DigitChars) - 1)
  ELSE NaN

\* Number(x)
ToNumber(x) ==
  CASE x.t = "undef" -> NaN
    [] x.t = "null"  -> Num(0)
    [] x.t = "nan"   -> NaN
    [] x.t = "bool"  -> IF x.v THEN Num(1) ELSE Num(0)
    [] x.t = "num"   -> x
    [] x.t = "str"   -> StringToNumber(x.v)
    [] x.t = "arr"   -> IF x.v = <<>> THEN Num(0)
                        ELSE IF Len(x.v) = 1 /\ x.v[1].t \in {"num", "str"}
                             THEN (IF x.v[1].t = "num" THEN x.v[1] ELSE StringToNumber(x.v[1].v))
                             ELSE NaN
    [] OTHER         -> NaN

\* a >= n for a number value a and an integer n
NumGE(a, n) ==
  a.v >= n

(***************************************************************************)
(* ReadConfig (src/src/configurations.ts)                                  *)
(***************************************************************************)

\* Keys of a for..in over source: nothing is enumerated for undefined/null
\* (an empty YAML file) or for a scalar without own enumerable keys.
SourceKeys(source) == IF IsObject(source) THEN DOMAIN source.kv ELSE {}

\* a deepMerge that appends the elements of a source array to a target array
RECURSIVE deepMergeConcatArrays(_, _)
deepMergeConcatArrays(target, source) ==
  LET merged(key) ==
        LET sv == source.kv[key]
            tv == Get(target, key)
        IN  IF Truthy(sv) /\ IsObject(sv) /\ sv.t # "arr"
            THEN deepMergeConcatArrays(IF ~Truthy(tv) \/ ~IsObject(tv) THEN EmptyMap ELSE tv, sv)
            ELSE IF sv.t = "arr" /\ tv.t = "arr"
                 THEN [tv EXCEPT !.v = tv.v \o sv.v]
                 ELSE sv
  IN  [target EXCEPT !.kv =
         [key \in DOMAIN target.kv \cup SourceKeys(source) |->
            IF key \in SourceKeys(source) THEN merged(key) ELSE target.kv[key]]]

\* deepMerge(target, source): merges source into target (in place in the
\* source; the merged target is returned here).
RECURSIVE deepMerge(_, _)
deepMerge(target, source) ==
  LET merged(key) ==
        LET sv == source.kv[key]
            tv == Get(target, key)
        IN  IF Truthy(sv) /\ IsObject(sv) /\ sv.t # "arr"
            THEN deepMerge(IF ~Truthy(tv) \/ ~IsObject(tv) THEN EmptyMap ELSE tv, sv)
            ELSE sv
  IN  [target EXCEPT !.kv =
         [key \in DOMAIN target.kv \cup SourceKeys(source) |->
            IF key \in SourceKeys(source) THEN merged(key) ELSE target.kv[key]]]

\* The older addSource: this.configurations = {...this.configurations, ...jsonData}
addSourceShallow(configs, jsonData) ==
  Map([key \in DOMAIN configs.kv \cup SourceKeys(jsonData) |->
         IF key \in SourceKeys(jsonData) THEN jsonData.kv[key] ELSE configs.kv[key]])

\* addSource(jsonData) on a ReadConfig whose configurations are configs
addSource(configs, jsonData) == deepMerge(configs, jsonData)

\* addDefault that keeps a port an earlier source has set
addDefaultIfMissing(configs, name, value) ==
  IF Truthy(value) /\ ~Has(configs, name) THEN Set(configs, name, value) ELSE configs

\* addDefault without the test of the value
addDefaultAlways(configs, name, value) == Set(configs, name, value)

\* addDefault(name, value)
addDefault(configs, name, value) ==
  IF Truthy(value) THEN Set(configs, name, value) ELSE configs

\* keyParts that lower-cases every part and never converts to camelCase
keyPartsLowerCase(key, prefix, prefixSeparator, separator, snakeCaseSeparator) ==
  LET raw == split(replaceFirst(key, prefix \o prefixSeparator), separator)
  IN  [i \in 1..Len(raw) |-> toLowerCase(raw[i])]

\* keyParts of one environment variable name
keyParts(key, prefix, prefixSeparator, separator, snakeCaseSeparator) ==
  LET configKey == replaceFirst(key, prefix \o prefixSeparator)
      raw == split(configKey, separator)
  IN  [i \in 1..Len(raw) |->
         IF snakeCaseSeparator # <<>> THEN toCamelCase(raw[i]) ELSE toLowerCase(raw[i])]

\* a walk that gives up at an intermediate key holding a non-mapping value
RECURSIVE assignPathKeepsScalar(_, _, _, _)
assignPathKeepsScalar(current, parts, i, val) ==
  IF i > Len(parts) - 1
  THEN IF parts[Len(parts)] # <<>> THEN Set(current, parts[Len(parts)], val) ELSE current
  ELSE IF parts[i] = <<>>
       THEN assignPathKeepsScalar(current, parts, i + 1, val)
       ELSE LET existing == Get(current, parts[i])
            IN  IF Truthy(existing) /\ ~IsObject(existing)
                THEN current
                ELSE Set(current, parts[i],
                         assignPathKeepsScalar(IF ~Truthy(existing) THEN EmptyMap ELSE existing,
                                               parts, i + 1, val))

\* The walk of lines 90-105: descend from current along parts[i..], creating
\* or replacing intermediate mappings, and store val under the last part.
RECURSIVE assignPath(_, _, _, _)
assignPath(current, parts, i, val) ==
  IF i > Len(parts) - 1
  THEN IF parts[Len(parts)] # <<>> THEN Set(current, parts[Len(parts)], val) ELSE current
  ELSE IF parts[i] = <<>>
       THEN assignPath(current, parts, i + 1, val)
       ELSE LET existing == Get(current, parts[i])
                child == IF ~Truthy(existing) \/ ~IsObject(existing)
                         THEN EmptyMap ELSE existing
            IN  Set(current, parts[i], assignPath(child, parts, i + 1, val))

\* One iteration of the loop over process.env (lines 77-107)
envStep(config, env, key, prefix, prefixSeparator, separator, snakeCaseSeparator) ==
  IF ~startsWith(key, prefix \o prefixSeparator) THEN config
  ELSE LET parts == keyParts(key, prefix, prefixSeparator, separator, snakeCaseSeparator)
       IN  IF Len(parts) = 0 \/ parts[1] = <<>> THEN config
           ELSE assignPath(config, parts, 1, Str(env[key]))

RECURSIVE envLoop(_, _, _, _, _, _, _)
envLoop(config, env, order, prefix, prefixSeparator, separator, snakeCaseSeparator) ==
  IF order = <<>> THEN config
  ELSE envLoop(envStep(config, env, order[1], prefix, prefixSeparator, separator,
                       snakeCaseSeparator),
               env, Tail(order), prefix, prefixSeparator, separator, snakeCaseSeparator)

Thrown == [t |-> "throw"]

\* a readFromEnvironment without the check of its separators
separatorsNeverClash(separator, snakeCaseSeparator) == FALSE

\* if (snakeCaseSeparator && snakeCaseSeparator === separator)
separatorsClash(separator, snakeCaseSeparator) ==
  snakeCaseSeparator # <<>> /\ snakeCaseSeparator = separator

\* readFromEnvironment(prefix, prefixSeparator, separator, snakeCaseSeparator?)
\* with process.env = env enumerated in the given order; an absent or empty
\* snakeCaseSeparator is <<>> (both are falsy in the source).
readFromEnvironment(env, order, prefix, prefixSeparator, separator, snakeCaseSeparator) ==
  IF separatorsClash(separator, snakeCaseSeparator) THEN Thrown
  ELSE envLoop(EmptyMap, env, order, prefix, prefixSeparator, separator, snakeCaseSeparator)

(***************************************************************************)
(* Key names                                                               *)
(***************************************************************************)
K_port == <<"p","o","r","t">>

K_tenant == <<"t","e","n","a","n","t">>

K_workers == <<"w","o","r","k","e","r","s">>

K_database == <<"d","a","t","a","b","a","s","e">>

K_logs == <<"l","o","g","s">>

K_host == <<"h","o","s","t">>

K_username == <<"u","s","e","r","n","a","m","e">>

K_password == <<"p","a","s","s","w","o","r","d">>

K_connectionLimit ==
  <<"c","o","n","n","e","c","t","i","o","n","L","i","m","i","t">>

K_terminal == <<"t","e","r","m","i","n","a","l">>

K_dailyRotateFile ==
  <<"d","a","i","l","y","R","o","t","a","t","e","F","i","l","e">>

K_loki == <<"l","o","k","i">>

K_lokiUrl == <<"l","o","k","i","U","r","l">>

K_lokiAppName == <<"l","o","k","i","A","p","p","N","a","m","e">>

K_lokiEndpointToken ==
  <<"l","o","k","i","E","n","d","p","o","i","n","t","T","o","k","e","n">>

(***************************************************************************)
(* zod: parse results, issues, primitive schemas                           *)
(***************************************************************************)
\* An issue: its path, its code, and the "continue" flag that tells whether
\* later checks of the enclosing schema still run (type errors abort, failed
\* checks do not).
Issue(path, code, cont) == [path |-> path, code |-> code, cont |-> cont]

Ok(value) == [value |-> value, issues |-> <<>>]

Fail(value, code) == [value |-> value, issues |-> <<Issue(<<>>, code, FALSE)>>]

\* whether a payload is aborted: some issue does not carry continue
aborted(issues) == \E i \in 1..Len(issues) : ~issues[i].cont

prefixIssues(key, issues) ==
  [i \in 1..Len(issues) |-> [issues[i] EXCEPT !.path = <<key>> \o @]]

\* a check appended to a schema: skipped on an aborted payload
check(r, passes, path, code) ==
  IF aborted(r.issues) \/ passes THEN r
  ELSE [r EXCEPT !.issues = @ \o <<Issue(path, code, TRUE)>>]

zString(x) == IF x.t = "str" THEN Ok(x) ELSE Fail(x, "invalid_type")

zNumber(x) == IF x.t = "num" THEN Ok(x) ELSE Fail(x, "invalid_type")

\* z.coerce.number(): Number(input), then the number check
zCoerceNumber(x) == zNumber(ToNumber(x))

\* z.coerce.boolean(): Boolean(input); never fails
zCoerceBoolean(x) == Ok(Bool(Truthy(x)))

\* .min(n) on a number schema result
zMin(r, n) == check(r, r.value.t = "num" /\ NumGE(r.value, n), <<>>, "too_small")

\* a schema without the .default
zDefaultIgnored(x, dflt, r) == r

\* .default(dflt): an undefined input yields dflt without running the inner
\* schema, whose result on x is r otherwise
zDefault(x, dflt, r) == IF x.t = "undef" THEN Ok(dflt) ELSE r

\* .optional(): an undefined input passes, r is the inner result otherwise
zOptional(x, r) == IF x.t = "undef" THEN Ok(Undef) ELSE r

SchemeChars == LowerChars \o UpperChars \o DigitChars \o <<"+", "-", ".">>

SpecialSchemes ==
  { <<"h","t","t","p">>, <<"h","t","t","p","s">>, <<"w","s">>, <<"w","s","s">>,
    <<"f","t","p">> }

RECURSIVE stripSlashes(_)
stripSlashes(s) ==
  IF s # <<>> /\ s[1] \in {"/", "\\"} THEN stripSlashes(Tail(s)) ELSE s

\* whether new URL(s) succeeds: a scheme, and a host for the special schemes
IsUrl(s) ==
  /\ Occurrences(s, <<":">>) # {}
  /\ LET i == Min(Occurrences(s, <<":">>))
     IN  /\ i >= 2
         /\ IsIn(s[1], LowerChars \o UpperChars)
         /\ \A j \in 1..(i - 1) : IsIn(s[j], SchemeChars)
         /\ toLowerCase(SubSeq(s, 1, i - 1)) \in SpecialSchemes
              => stripSlashes(Drop(s, i + 1)) # <<>>

\* z.url()
zUrl(x) ==
  IF x.t # "str" THEN Fail(x, "invalid_type")
  ELSE check(Ok(x), IsUrl(x.v), <<>>, "invalid_format")

RECURSIVE collectIssues(_, _)
collectIssues(keys, R) ==
  IF keys = <<>> THEN <<>>
  ELSE prefixIssues(keys[1], R[keys[1]].issues) \o collectIssues(Tail(keys), R)

\* z.object(shape) on input x, R[k] being the result of shape[k] on x[k]:
\* the shape's keys in declaration order, unknown keys stripped
zObject(x, keys, R) ==
  IF x.t # "map" THEN Fail(x, "invalid_type")
  ELSE [value |-> Map([k \in {keys[i] : i \in {j \in 1..Len(keys) :
                                     R[keys[j]].value.t # "undef"}} |-> R[k].value]),
        issues |-> collectIssues(keys, R)]

(***************************************************************************)
(* The schemas of src/src/configurations.ts                                *)
(***************************************************************************)
MinPort == 1000

MinDatabasePort == 1000

DefaultConnectionLimit == 10

DefaultDatabasePort == 3306

DefaultWorkers == -1

LogsKeys ==
  <<K_terminal, K_dailyRotateFile, K_loki, K_lokiUrl, K_lokiAppName, K_lokiEndpointToken>>

\* the fields of logsConfigurationSchema, before the refinement
logsFields(x) ==
  [k \in {LogsKeys[i] : i \in 1..Len(LogsKeys)} |->
     CASE k = K_terminal          -> zCoerceBoolean(Get(x, k))
       [] k = K_dailyRotateFile   -> zCoerceBoolean(Get(x, k))
       [] k = K_loki              -> zCoerceBoolean(Get(x, k))
       [] k = K_lokiUrl           -> zOptional(Get(x, k), zUrl(Get(x, k)))
       [] k = K_lokiAppName       -> zOptional(Get(x, k), zString(Get(x, k)))
       [] k = K_lokiEndpointToken -> zOptional(Get(x, k), zString(Get(x, k)))]

\* (data) => !data.loki || data.lokiUrl
lokiRefinement(data) == ~Truthy(Get(data, K_loki)) \/ Truthy(Get(data, K_lokiUrl))

\* the logs object without its .refine
logsSchemaNoRefine(x) == zObject(x, LogsKeys, logsFields(x))

\* logsConfigurationSchema: the object, then the refinement as a check
logsConfigurationSchema(x) ==
  LET r == zObject(x, LogsKeys, logsFields(x))
  IN  check(r, lokiRefinement(r.value), <<K_lokiUrl>>, "custom")

DatabaseKeys == <<K_host, K_username, K_password, K_connectionLimit, K_port>>

databaseFields(x) ==
  [k \in {DatabaseKeys[i] : i \in 1..Len(DatabaseKeys)} |->
     CASE k = K_host            -> zString(Get(x, k))
       [] k = K_username        -> zString(Get(x, k))
       [] k = K_password        -> zString(Get(x, k))
       [] k = K_connectionLimit ->
            zDefault(Get(x, k), Num(DefaultConnectionLimit), zNumber(Get(x, k)))
       [] k = K_port            ->
            zDefault(Get(x, k), Num(DefaultDatabasePort),
                     zMin(zNumber(Get(x, k)), MinDatabasePort))]

databaseConfigurationSchema(x) == zObject(x, DatabaseKeys, databaseFields(x))

ConfigurationKeys == <<K_port, K_tenant, K_workers, K_database, K_logs>>

\* a port that may be left out
portSchemaOptional(x) == zOptional(x, zMin(zCoerceNumber(x), MinPort))

\* port: z.coerce.number().min(1000)
portSchema(x) == zMin(zCoerceNumber(x), MinPort)

configurationFields(x) ==
  [k \in {ConfigurationKeys[i] : i \in 1..Len(ConfigurationKeys)} |->
     CASE k = K_port     -> portSchema(Get(x, k))
       [] k = K_tenant   -> zString(Get(x, k))
       [] k = K_workers  -> zDefault(Get(x, k), Num(DefaultWorkers), zNumber(Get(x, k)))
       [] k = K_database -> databaseConfigurationSchema(Get(x, k))
       [] k = K_logs     -> logsConfigurationSchema(Get(x, k))]

configurationSchema(x) == zObject(x, ConfigurationKeys, configurationFields(x))

\* a validation that stops at the first issue
safeParseFirstIssue(x) ==
  LET r == configurationSchema(x)
  IN  [success |-> r.issues = <<>>, data |-> r.value,
       issues |-> IF r.issues = <<>> THEN <<>> ELSE <<r.issues[1]>>]

\* configurationSchema.safeParse(x)
safeParse(x) ==
  LET r == configurationSchema(x)
  IN  [success |-> r.issues = <<>>, data |-> r.value, issues |-> r.issues]

\* result.error.issues.map((err) => `${err.path.join(".")}:${err.message}`),
\* each entry kept as the pair of its joined path and its issue code
errorEntries(issues) ==
  [i \in 1..Len(issues) |->
     [path |-> join(issues[i].path, <<".">>), message |-> issues[i].code]]

(***************************************************************************)
(* Inputs: process.env and the two YAML files                              *)
(***************************************************************************)
E_PORT == <<"P","O","R","T">>

E_APP_PORT == <<"A","P","P","_","P","O","R","T">>

E_APP_DATABASE == <<"A","P","P","_","D","A","T","A","B","A","S","E">>

E_APP_DATABASE__HOST ==
  <<"A","P","P","_","D","A","T","A","B","A","S","E","_","_","H","O","S","T">>

E_APP_DATABASE__PORT ==
  <<"A","P","P","_","D","A","T","A","B","A","S","E","_","_","P","O","R","T">>

E_APP_DATABASE__CONNECTIONLIMIT ==
  <<"A","P","P","_","D","A","T","A","B","A","S","E","_","_","C","O","N","N","E","C","T","I","O","N","L","I","M","I","T">>

E_APP_DATABASE__CONNECTION_LIMIT ==
  <<"A","P","P","_","D","A","T","A","B","A","S","E","_","_","C","O","N","N","E","C","T","I","O","N","_","L","I","M","I","T">>

E_APP_LOGS__LOKI == <<"A","P","P","_","L","O","G","S","_","_","L","O","K","I">>

E_APP_WORKERS == <<"A","P","P","_","W","O","R","K","E","R","S">>

E_APP_LOGS__TERMINAL ==
  <<"A","P","P","_","L","O","G","S","_","_","T","E","R","M","I","N","A","L">>

E_APP_LOGS__DAILY_ROTATE_FILE ==
  <<"A","P","P","_","L","O","G","S","_","_","D","A","I","L","Y","_","R","O","T","A","T","E","_","F","I","L","E">>

V_9090 == <<"9","0","9","0">>

V_9999 == <<"9","9","9","9">>

V_25 == <<"2","5">>

V_2 == <<"2">>

V_3307 == <<"3","3","0","7">>

V_true == <<"t","r","u","e">>

V_false == <<"f","a","l","s","e">>

V_x == <<"x">>

V_db == <<"d","b">>

V_t1 == <<"t","1">>

V_h == <<"h">>

V_u == <<"u">>

V_p == <<"p">>

V_lokiHost == <<"h","t","t","p",":","/","/","l">>

\* the arguments of readFromEnvironment in buildConfig (line 161)
EnvPrefix == <<"A","P","P">>

EnvPrefixSeparator == <<"_">>

EnvSeparator == <<"_","_">>

EnvSnakeCaseSeparator == <<"_">>

\* the largest number of variables set in process.env at once
MaxEnvVars == 2

\* name/value pairs process.env is drawn from
EnvPool ==
  { <<E_PORT, V_9999>>, <<E_PORT, <<>> >>,
    <<E_APP_PORT, V_9090>>,
    <<E_APP_DATABASE, V_x>>,
    <<E_APP_DATABASE__HOST, V_db>>,
    <<E_APP_DATABASE__PORT, V_3307>>,
    <<E_APP_DATABASE__CONNECTIONLIMIT, V_25>>,
    <<E_APP_DATABASE__CONNECTION_LIMIT, V_25>>,
    <<E_APP_LOGS__LOKI, V_false>>, <<E_APP_LOGS__LOKI, V_true>>,
    <<E_APP_LOGS__TERMINAL, V_false>>,
    <<E_APP_LOGS__DAILY_ROTATE_FILE, V_false>> }

EnvOf(S) == [n \in {p[1] : p \in S} |-> (CHOOSE p \in S : p[1] = n)[2]]

Environments ==
  { EnvOf(S) : S \in { T \in SUBSET EnvPool :
                         /\ Cardinality(T) <= MaxEnvVars
                         /\ \A p, q \in T : p[1] = q[1] => p = q } }

\* process.env[name]
EnvValue(e, name) == IF name \in DOMAIN e THEN Str(e[name]) ELSE Undef

\* the enumeration orders of a set of names
RECURSIVE Orders(_)
Orders(S) ==
  IF S = {} THEN { <<>> }
  ELSE UNION { { <<n>> \o o : o \in Orders(S \ {n}) } : n \in S }

ScenarioLogs ==
  Map(K_terminal :> Bool(TRUE) @@ K_dailyRotateFile :> Bool(FALSE) @@ K_loki :> Bool(FALSE))

ScenarioDatabase ==
  Map(K_host :> Str(V_h) @@ K_username :> Str(V_u) @@ K_password :> Str(V_p))

\* the base file of the documented scenario
ScenarioBase ==
  Map(K_port :> Num(8080) @@ K_tenant :> Str(V_t1) @@ K_logs :> ScenarioLogs
      @@ K_database :> ScenarioDatabase)

Without(m, key) == Map([k \in DOMAIN m.kv \ {key} |-> m.kv[k]])

\* what ReadConfig.readFile does with a file that is missing or is not YAML:
\* fs.readFileSync or yaml.load throws
Unreadable == Thrown

\* contents of base.yaml (Undef: an empty file, for which yaml.load returns
\* undefined)
BaseFiles ==
  { ScenarioBase,
    Undef,
    Without(ScenarioBase, K_port),
    Set(ScenarioBase, K_logs,
        Set(Set(ScenarioLogs, K_loki, Bool(TRUE)), K_lokiAppName, Num(5))),
    Set(ScenarioBase, K_logs,
        Set(Set(ScenarioLogs, K_loki, Bool(TRUE)), K_lokiUrl, Str(V_lokiHost))),
    Set(Set(ScenarioBase, K_workers, Num(2)), K_database,
        Set(Set(ScenarioDatabase, K_port, Num(3307)), K_connectionLimit, Num(5))),
    Set(Set(ScenarioBase, K_port, Num(80)), K_tenant, Num(5)),
    Unreadable }

\* contents of {environment}.yaml
EnvironmentFiles ==
  { EmptyMap,
    Map(K_port :> Num(3000) @@ K_database :> Map(K_port :> Num(3308))),
    Map(K_database :> Str(V_x)),
    Map(K_logs :> Map(K_loki :> Bool(TRUE))),
    Map(K_port :> Map(K_host :> Num(1))),
    Map(K_database :> Arr(<<Str(V_x)>>)),
    Map(K_port :> Frac(8080, 5)),
    Map(K_tenant :> Str(<<>>)),
    Unreadable }

(***************************************************************************)
(* The process: buildConfig() followed by the startup of index.ts          *)
(***************************************************************************)
VARIABLES
  baseFile,        \* yaml.load of configurations/base.yaml
  envFile,         \* yaml.load of configurations/{environment}.yaml
  env,             \* process.env
  configurations,  \* ReadConfig.configurations
  envSource,       \* what readFromEnvironment returned
  result,          \* what safeParse returned
  config,          \* what buildConfig returned (the const of index.ts)
  thrown,          \* the error that ended the process, if any
  pool,            \* the mysql pool: "none", "open", "ended"
  conn,            \* the probe connection: "none", "held", "released"
  app,             \* whether createServer has built the express app
  transports,      \* the transports added to the logger
  listening,       \* whether listen has been called
  events,          \* the calls made so far, in order
  pc,              \* the position of the process
  metricsHandler,  \* the handler createServer registered for GET /metrics
  dbReachable,     \* whether the database server still answers
  exchange,        \* the last HTTP request and its response
  reader,          \* a call of readFromEnvironment in progress
  maxCPUs,         \* cpus().length
  procs            \* the processes of the clustered index

vars ==
  <<baseFile, envFile, env, configurations, envSource, result, config, thrown,
    pool, conn, app, transports, listening, events, pc,
    metricsHandler, dbReachable, exchange, reader, maxCPUs, procs>>

inputs == <<baseFile, envFile, env>>

\* what the requests served after startup read and write
serving == <<metricsHandler, dbReachable, exchange>>

\* what a stand-alone call of readFromEnvironment and the clustered index use
others == <<reader, maxCPUs, procs>>

startup == <<pool, conn, app, transports, listening>>

NoResult == [success |-> FALSE, data |-> Undef, issues |-> <<>>]

NoError == [kind |-> "none", entries |-> <<>>]

NoExchange == [path |-> "none"]

NoReader == [status |-> "none"]

NoProcs == [p \in {} |-> Undef]

Init ==
  /\ baseFile \in BaseFiles
  /\ envFile \in EnvironmentFiles
  /\ env \in Environments
  /\ configurations = EmptyMap
  /\ envSource = Undef
  /\ result = NoResult
  /\ config = Undef
  /\ thrown = NoError
  /\ pool = "none"
  /\ conn = "none"
  /\ app = FALSE
  /\ transports = {}
  /\ listening = FALSE
  /\ events = <<>>
  /\ pc = "addBase"
  /\ metricsHandler = "none"
  /\ dbReachable = TRUE
  /\ exchange = NoExchange
  /\ reader = NoReader
  /\ maxCPUs = 0
  /\ procs = NoProcs

\* a readFile that swallows the error and yields nothing to merge
readNeverFails(file) == FALSE

\* ReadConfig.readFile(filename) throws (the file does not exist or is not
\* YAML); the exception leaves buildConfig
readFails(file) == file = Unreadable

\* the Error that leaves buildConfig when readFile throws
ReadError == [kind |-> "read", entries |-> <<>>]

\* .addSource(ReadConfig.readFile(".../base.yaml"))
AddBaseSource ==
  /\ pc = "addBase"
  /\ IF readFails(baseFile)
     THEN /\ thrown' = ReadError
          /\ pc' = "failed"
          /\ UNCHANGED configurations
     ELSE /\ configurations' = addSource(configurations, baseFile)
          /\ pc' = "addEnvironmentFile"
          /\ UNCHANGED thrown
  /\ UNCHANGED <<inputs, serving, others, envSource, result, config, startup, events>>

\* .addSource(ReadConfig.readFile(".../${environment}.yaml"))
AddEnvironmentFileSource ==
  /\ pc = "addEnvironmentFile"
  /\ IF readFails(envFile)
     THEN /\ thrown' = ReadError
          /\ pc' = "failed"
          /\ UNCHANGED configurations
     ELSE /\ configurations' = addSource(configurations, envFile)
          /\ pc' = "addEnvironment"
          /\ UNCHANGED thrown
  /\ UNCHANGED <<inputs, serving, others, envSource, result, config, startup, events>>

\* .addSource(ReadConfig.readFromEnvironment("APP", "_", "__", "_")); the
\* order in which for..in enumerates process.env is not fixed by the program
AddEnvironmentSource ==
  /\ pc = "addEnvironment"
  /\ \E order \in Orders(DOMAIN env) :
       /\ envSource' = readFromEnvironment(env, order, EnvPrefix, EnvPrefixSeparator,
                                           EnvSeparator, EnvSnakeCaseSeparator)
       /\ configurations' = addSource(configurations, envSource')
  /\ pc' = "addDefault"
  /\ UNCHANGED <<inputs, serving, others, result, config, thrown, startup, events>>

\* .addDefault("port", process.env["PORT"])
AddDefaultPort ==
  /\ pc = "addDefault"
  /\ configurations' = addDefault(configurations, K_port, EnvValue(env, E_PORT))
  /\ pc' = "validate"
  /\ UNCHANGED <<inputs, serving, others, envSource, result, config, thrown, startup, events>>

\* a buildConfig that returns result.data whatever the result
validationNeverThrows(r) == FALSE

\* if (!result.success) { ... throw new Error(...) }
validationThrows(r) == ~r.success

\* safeParse, then the throw or the return of buildConfig
Validate ==
  /\ pc = "validate"
  /\ result' = safeParse(configurations)
  /\ IF validationThrows(result')
     THEN /\ thrown' = [kind |-> "validation", entries |-> errorEntries(result'.issues)]
          /\ pc' = "failed"
          /\ UNCHANGED <<config, events>>
     ELSE /\ config' = result'.data
          /\ events' = Append(events, "buildConfig")
          /\ pc' = "createPool"
          /\ UNCHANGED thrown
  /\ UNCHANGED <<inputs, serving, others, configurations, envSource, startup>>

\* a createDbPool that does not pass connectionLimit, so that mysql2 uses its
\* own limit of 10
poolOptionsOwnLimit(configuration) ==
  [host            |-> GetPath(configuration, <<K_database, K_host>>),
   user            |-> GetPath(configuration, <<K_database, K_username>>),
   password        |-> GetPath(configuration, <<K_database, K_password>>),
   database        |-> Get(configuration, K_tenant),
   port            |-> GetPath(configuration, <<K_database, K_port>>),
   connectionLimit |-> Num(10)]

\* the options createDbPool hands to mysql.createPool
poolOptions(configuration) ==
  [host            |-> GetPath(configuration, <<K_database, K_host>>),
   user            |-> GetPath(configuration, <<K_database, K_username>>),
   password        |-> GetPath(configuration, <<K_database, K_password>>),
   database        |-> Get(configuration, K_tenant),
   port            |-> GetPath(configuration, <<K_database, K_port>>),
   connectionLimit |-> GetPath(configuration, <<K_database, K_connectionLimit>>)]

\* createDbPool: mysql.createPool({...})
CreatePool ==
  /\ pc = "createPool"
  /\ pool' = "open"
  /\ events' = Append(events, "createPool")
  /\ pc' = "getConnection"
  /\ UNCHANGED <<inputs, serving, others, configurations, envSource, result, config, thrown, conn, app,
                 transports, listening>>

\* await poolConnection.getConnection() resolves
GetConnectionOk ==
  /\ pc = "getConnection"
  /\ conn' = "held"
  /\ pc' = "ping"
  /\ UNCHANGED <<inputs, serving, others, configurations, envSource, result, config, thrown, pool, app,
                 transports, listening, events>>

\* await poolConnection.getConnection() rejects
GetConnectionFail ==
  /\ pc = "getConnection"
  /\ pc' = "endPool"
  /\ UNCHANGED <<inputs, serving, others, configurations, envSource, result, config, thrown, startup, events>>

\* await conn.ping() resolves; conn.release()
PingOk ==
  /\ pc = "ping"
  /\ conn' = "released"
  /\ events' = Append(events, "probed")
  /\ pc' = "createServer"
  /\ UNCHANGED <<inputs, serving, others, configurations, envSource, result, config, thrown, pool, app,
                 transports, listening>>

\* await conn.ping() rejects
PingFail ==
  /\ pc = "ping"
  /\ pc' = "endPool"
  /\ UNCHANGED <<inputs, serving, others, configurations, envSource, result, config, thrown, startup, events>>

\* a catch block that rethrows without ending the pool
EndPoolSkipped ==
  /\ pc = "endPool"
  /\ thrown' = [kind |-> "database", entries |-> <<>>]
  /\ pc' = "failed"
  /\ UNCHANGED <<inputs, serving, others, configurations, envSource, result, config, pool,
                 conn, app, transports, listening, events>>

\* catch: await poolConnection.end(); throw new Error("Database connection failed: ...")
EndPool ==
  /\ pc = "endPool"
  /\ pool' = "ended"
  /\ thrown' = [kind |-> "database", entries |-> <<>>]
  /\ pc' = "failed"
  /\ UNCHANGED <<inputs, serving, others, configurations, envSource, result, config, conn, app,
                 transports, listening, events>>

\* The repository holds two createServer: the one of src/src/server.ts
\* registers GET /metrics with an inline handler ("open"), the other one
\* stores the configuration in req.config and registers the metrics route
\* ("bearer"). Which of the two index.ts imports is not fixed by the sources.
MetricsHandlers == {"open", "bearer"}

\* createServer(configurations, db)
CreateServer ==
  /\ pc = "createServer"
  /\ app' = TRUE
  /\ metricsHandler' \in MetricsHandlers
  /\ events' = Append(events, "createServer")
  /\ pc' = "addTransporter"
  /\ UNCHANGED <<inputs, dbReachable, exchange, others, configurations, envSource, result,
                 config, thrown, pool, conn, transports, listening>>

\* an addTransporter that adds the file transport whatever the flag says
selectedTransportsFileAlways(logs) ==
  (IF Truthy(Get(logs, K_terminal)) THEN {"console"} ELSE {})
  \cup {"dailyRotateFile"}
  \cup (IF Truthy(Get(logs, K_loki)) THEN {"loki"} ELSE {})

\* host: configurations.lokiUrl ?? '' of the options of new LokiTransport
lokiHost(logs) ==
  IF Get(logs, K_lokiUrl).t \in {"undef", "null"} THEN Str(<<>>) ELSE Get(logs, K_lokiUrl)

\* the transports addTransporter(configurations.logs) adds
selectedTransports(logs) ==
  (IF Truthy(Get(logs, K_terminal)) THEN {"console"} ELSE {})
  \cup (IF Truthy(Get(logs, K_dailyRotateFile)) THEN {"dailyRotateFile"} ELSE {})
  \cup (IF Truthy(Get(logs, K_loki)) THEN {"loki"} ELSE {})

\* an addTransporter that writes the fallback of the Loki host back into
\* the configuration it was given (configurations.lokiUrl ??= '')
AddTransporterWritesFallback ==
  /\ pc = "addTransporter"
  /\ transports' = transports \cup selectedTransports(Get(config, K_logs))
  /\ config' = Set(config, K_logs,
                   Set(Get(config, K_logs), K_lokiUrl,
                       IF Has(Get(config, K_logs), K_lokiUrl)
                       THEN GetPath(config, <<K_logs, K_lokiUrl>>) ELSE Str(<<>>)))
  /\ events' = Append(events, "addTransporter")
  /\ pc' = "listen"
  /\ UNCHANGED <<inputs, serving, others, configurations, envSource, result, thrown, pool, conn,
                 app, listening>>

\* addTransporter(configurations.logs)
AddTransporter ==
  /\ pc = "addTransporter"
  /\ transports' = transports \cup selectedTransports(Get(config, K_logs))
  /\ events' = Append(events, "addTransporter")
  /\ pc' = "listen"
  /\ UNCHANGED <<inputs, serving, others, configurations, envSource, result, config, thrown, pool, conn,
                 app, listening>>

\* server.listen(configurations.port, ...)
Listen ==
  /\ pc = "listen"
  /\ listening' = TRUE
  /\ events' = Append(events, "listen")
  /\ pc' = "listening"
  /\ UNCHANGED <<inputs, serving, others, configurations, envSource, result, config, thrown, pool, conn,
                 app, transports>>

Next ==
  \/ AddBaseSource
  \/ AddEnvironmentFileSource
  \/ AddEnvironmentSource
  \/ AddDefaultPort
  \/ Validate
  \/ CreatePool
  \/ GetConnectionOk
  \/ GetConnectionFail
  \/ PingOk
  \/ PingFail
  \/ EndPool
  \/ CreateServer
  \/ AddTransporter
  \/ Listen

Spec == Init /\ [][Next]_vars

(***************************************************************************)
(* The listening server: GET /health and GET /metrics                      *)
(***************************************************************************)
K_ok == <<"o","k">>

V_tok == <<"t","o","k">>

Bearer == <<"B","e","a","r","e","r">>

\* values of the Authorization header of a request (Undef: no header)
AuthorizationHeaders ==
  { Undef,
    Str(<<>>),
    Str(Bearer \o <<" ">> \o V_tok),
    Str(Bearer \o <<" ">> \o V_x),
    Str(Bearer),
    Str(Bearer \o <<" ">>),
    Str(<<"B","a","s","i","c"," ">> \o V_tok),
    Str(<<"b","e","a","r","e","r"," ">> \o V_tok),
    Str(V_tok),
    Str(Bearer \o <<" ">> \o V_tok \o <<" ">> \o V_x) }

\* a text body
Text(s) == [t |-> "text", v |-> s]

\* what client.register.metrics() resolves to
MetricsBody == Text("metrics")

\* res.status(status).send(body) / res.json(body)
Response(status, body) == [status |-> status, body |-> body]

\* the request as the handlers see it; the middleware of createServer sets
\* req.config
Request(authorization) ==
  [authorization |-> authorization, config |-> config, db |-> dbReachable]

\* a /health handler that answers only while the database does
healthChecksDatabase(req) ==
  IF req.db THEN Response(200, Map(K_ok :> Bool(TRUE)))
  ELSE Response(503, Text("database unavailable"))

\* app.get('/health', (_req, res) => { res.json({ ok: true }) })
health(req) == Response(200, Map(K_ok :> Bool(TRUE)))

\* the inline handler of src/src/server.ts
metricsOpen(req) == Response(200, MetricsBody)

\* the metrics route
metrics(req) ==
  LET authHeader == req.authorization
  IN  IF ~Truthy(authHeader) THEN Response(401, Text("unauthorized"))
      ELSE LET parts == split(authHeader.v, <<" ">>)
               method == parts[1]
               token == IF Len(parts) >= 2 THEN Str(parts[2]) ELSE Undef
               accessToken == GetPath(req.config, <<K_logs, K_lokiEndpointToken>>)
           IN  IF ~Truthy(accessToken)
               THEN Response(503, Text("Metrics endpoint disabled"))
               ELSE IF method # Bearer \/ token # accessToken
                    THEN Response(401, Text("unauthorized"))
                    ELSE Response(200, MetricsBody)

\* the chain of buildConfig up to the call of safeParse
mergedConfigurations(base, file, environment, order) ==
  addDefault(
    addSource(addSource(addSource(EmptyMap, base), file),
              readFromEnvironment(environment, order, EnvPrefix, EnvPrefixSeparator,
                                  EnvSeparator, EnvSnakeCaseSeparator)),
    K_port, EnvValue(environment, E_PORT))

\* base files with which the server comes up: the valid ones above, and the
\* documented one with a metrics token and with an empty one
ServedBaseFiles ==
  { b \in BaseFiles \ {Unreadable} : safeParse(addSource(EmptyMap, b)).success }
  \cup { Set(ScenarioBase, K_logs, Set(ScenarioLogs, K_lokiEndpointToken, Str(V_tok))),
         Set(ScenarioBase, K_logs, Set(ScenarioLogs, K_lokiEndpointToken, Str(<<>>))) }

\* index.ts has run to the end on a readable, valid configuration
InitServe ==
  /\ baseFile \in ServedBaseFiles
  /\ envFile = EmptyMap
  /\ env = EnvOf({})
  /\ envSource = EmptyMap
  /\ configurations = mergedConfigurations(baseFile, envFile, env, <<>>)
  /\ result = safeParse(configurations)
  /\ config = result.data
  /\ thrown = NoError
  /\ pool = "open"
  /\ conn = "released"
  /\ app = TRUE
  /\ transports = selectedTransports(Get(config, K_logs))
  /\ listening = TRUE
  /\ events = <<"buildConfig", "createPool", "probed", "createServer", "addTransporter", "listen">>
  /\ pc = "listening"
  /\ metricsHandler \in MetricsHandlers
  /\ dbReachable = TRUE
  /\ exchange = NoExchange
  /\ reader = NoReader
  /\ maxCPUs = 0
  /\ procs = NoProcs

process == <<configurations, envSource, result, config, thrown, startup, events, pc>>

\* GET /health
GetHealth ==
  /\ listening
  /\ \E authorization \in AuthorizationHeaders :
       exchange' = [path |-> "/health", authorization |-> authorization,
                    response |-> health(Request(authorization))]
  /\ UNCHANGED <<inputs, process, metricsHandler, dbReachable, others>>

\* GET /metrics
GetMetrics ==
  /\ listening
  /\ \E authorization \in AuthorizationHeaders :
       exchange' = [path |-> "/metrics", authorization |-> authorization,
                    response |-> IF metricsHandler = "open"
                                 THEN metricsOpen(Request(authorization))
                                 ELSE metrics(Request(authorization))]
  /\ UNCHANGED <<inputs, process, metricsHandler, dbReachable, others>>

\* the database server stops answering after startup
DatabaseLost ==
  /\ listening
  /\ dbReachable
  /\ dbReachable' = FALSE
  /\ UNCHANGED <<inputs, process, metricsHandler, exchange, others>>

NextServe ==
  \/ GetHealth
  \/ GetMetrics
  \/ DatabaseLost

SpecServe == InitServe /\ [][NextServe]_vars

(***************************************************************************)
(* A call of readFromEnvironment, statement by statement                   *)
(***************************************************************************)
\* the separator arguments of the call (<<>>: snakeCaseSeparator omitted)
ReaderSeparators == { <<"_">>, <<"_","_">> }

ReaderSnakeCaseSeparators == { <<>>, <<"_">>, <<"_","_">> }

E_APPLE == <<"A","P","P","L","E">>

E_APP_ == <<"A","P","P","_">>

\* process.env of the call: the variables of EnvPool and two names that
\* share the letters of the prefix
ReaderEnvPool == EnvPool \cup { <<E_APPLE, V_x>>, <<E_APP_, V_x>> }

ReaderEnvironments ==
  { EnvOf(S) : S \in { T \in SUBSET ReaderEnvPool :
                         /\ Cardinality(T) <= MaxEnvVars
                         /\ \A p, q \in T : p[1] = q[1] => p = q } }

\* ReadConfig.readFromEnvironment("APP", "_", separator, snakeCaseSeparator)
\* has been called
InitReader ==
  /\ env \in ReaderEnvironments
  /\ \E separator \in ReaderSeparators, snakeCaseSeparator \in ReaderSnakeCaseSeparators :
       reader = [status |-> "called", separator |-> separator,
                 snakeCaseSeparator |-> snakeCaseSeparator,
                 order |-> <<>>, examined |-> 0, config |-> Undef]
  /\ baseFile = Undef
  /\ envFile = Undef
  /\ configurations = EmptyMap
  /\ envSource = Undef
  /\ result = NoResult
  /\ config = Undef
  /\ thrown = NoError
  /\ pool = "none"
  /\ conn = "none"
  /\ app = FALSE
  /\ transports = {}
  /\ listening = FALSE
  /\ events = <<>>
  /\ pc = "readFromEnvironment"
  /\ metricsHandler = "none"
  /\ dbReachable = TRUE
  /\ exchange = NoExchange
  /\ maxCPUs = 0
  /\ procs = NoProcs

\* lines 71-75: the check of the separators, then const config = {}; the
\* order in which for..in will enumerate process.env is fixed here
ReaderCheckSeparators ==
  /\ reader.status = "called"
  /\ IF separatorsClash(reader.separator, reader.snakeCaseSeparator)
     THEN reader' = [reader EXCEPT !.status = "thrown"]
     ELSE \E order \in Orders(DOMAIN env) :
            reader' = [reader EXCEPT !.status = "looping", !.order = order,
                                     !.config = EmptyMap]
  /\ UNCHANGED <<inputs, process, serving, maxCPUs, procs>>

\* lines 77-107: one iteration of for (const key in process.env)
ReaderExamine ==
  /\ reader.status = "looping"
  /\ reader.examined < Len(reader.order)
  /\ reader' = [reader EXCEPT
                  !.examined = @ + 1,
                  !.config = envStep(reader.config, env, reader.order[reader.examined + 1],
                                     EnvPrefix, EnvPrefixSeparator, reader.separator,
                                     reader.snakeCaseSeparator)]
  /\ UNCHANGED <<inputs, process, serving, maxCPUs, procs>>

\* line 109: return config
ReaderReturn ==
  /\ reader.status = "looping"
  /\ reader.examined = Len(reader.order)
  /\ reader' = [reader EXCEPT !.status = "returned"]
  /\ UNCHANGED <<inputs, process, serving, maxCPUs, procs>>

NextReader ==
  \/ ReaderCheckSeparators
  \/ ReaderExamine
  \/ ReaderReturn

SpecReader == InitReader /\ [][NextReader]_vars

(***************************************************************************)
(* The clustered index: one primary (or single) process and its workers    *)
(***************************************************************************)
\* the largest number of CPUs of the machine
MaxCPUs == 2

\* the largest number of workers forked to replace one that exited
MaxRestarts == 1

\* x <= n for a number value x and an integer n
NumLE(x, n) == x.v < n \/ (x.v = n /\ x.d = 0)

\* Math.min(x, n) for a number value x and an integer n
MathMin(x, n) == IF x.v < n THEN x ELSE Num(n)

\* const numCPUs = requestedWorkers <= 0 ? maxCPUs : Math.min(requestedWorkers, maxCPUs)
numCPUs(requestedWorkers, cpus) ==
  IF NumLE(requestedWorkers, 0) THEN Num(cpus) ELSE MathMin(requestedWorkers, cpus)

\* the number of iterations of for (let i = 0; i < n; i++)
Iterations(n) == IF n.v < 0 THEN 0 ELSE n.v + (IF n.d > 0 THEN 1 ELSE 0)

\* a process that has not yet run the module; cluster.isPrimary is isPrimary.
\* signalled: shutdownHandler has run; pending: a SIGTERM sent by the primary
\* is on its way; closeCalled, closed: server.close and its callback; code:
\* how the process ended ("0", "1", or "signal" when a signal killed it)
NewProcess(isPrimary) ==
  [isPrimary |-> isPrimary, role |-> "none", pc |-> "start", configurations |-> Undef,
   forked |-> 0, pools |-> 0, pool |-> "none", conns |-> 0, listening |-> FALSE,
   reaped |-> FALSE, signalled |-> FALSE, pending |-> FALSE, closeCalled |-> FALSE,
   closed |-> FALSE, code |-> "none"]

\* base.yaml of the clustered runs: the documented one with a connection
\* limit and a number of workers
ClusterBaseFiles ==
  { Set(IF w = Undef THEN ScenarioBase ELSE Set(ScenarioBase, K_workers, w),
        K_database, Set(ScenarioDatabase, K_connectionLimit, Num(limit))) :
      w \in {Undef, Num(0), Num(1), Num(2), Num(3), Frac(0, 5), Frac(1, 5)},
      limit \in {1, 2} }

\* process.env of the clustered runs
ClusterEnvironments == { EnvOf({}), EnvOf({<<E_APP_WORKERS, V_2>>}) }

\* the process the operator starts is there; nothing has run yet
InitCluster ==
  /\ baseFile \in ClusterBaseFiles
  /\ envFile = EmptyMap
  /\ env \in ClusterEnvironments
  /\ maxCPUs \in 1..MaxCPUs
  /\ procs = [p \in {0} |-> NewProcess(TRUE)]
  /\ configurations = EmptyMap
  /\ envSource = Undef
  /\ result = NoResult
  /\ config = Undef
  /\ thrown = NoError
  /\ pool = "none"
  /\ conn = "none"
  /\ app = FALSE
  /\ transports = {}
  /\ listening = FALSE
  /\ events = <<>>
  /\ pc = "cluster"
  /\ metricsHandler = "none"
  /\ dbReachable = TRUE
  /\ exchange = NoExchange
  /\ reader = NoReader

\* const configurations = buildConfig() in one process
builtConfig(order) == safeParse(mergedConfigurations(baseFile, envFile, env, order))

\* procs with process p replaced by q and k new workers forked
WithForks(p, q, k) ==
  [i \in DOMAIN procs \cup (Cardinality(DOMAIN procs)..(Cardinality(DOMAIN procs) + k - 1)) |->
     IF i = p THEN q ELSE IF i \in DOMAIN procs THEN procs[i] ELSE NewProcess(FALSE)]

\* line 70: buildConfig throws and the process ends
BuildConfigThrows(p) ==
  /\ procs[p].pc = "start"
  /\ \E order \in Orders(DOMAIN env) : validationThrows(builtConfig(order))
  /\ procs' = [procs EXCEPT ![p] = [@ EXCEPT !.pc = "exited", !.code = "1"]]
  /\ UNCHANGED <<inputs, process, serving, reader, maxCPUs>>

\* lines 70-81 and 17: numCPUs === 1, startServer('single') up to the first
\* await of createDbPool
StartSingle(p) ==
  /\ procs[p].pc = "start"
  /\ \E order \in Orders(DOMAIN env) :
       /\ ~validationThrows(builtConfig(order))
       /\ numCPUs(Get(builtConfig(order).data, K_workers), maxCPUs) = Num(1)
       /\ procs' = [procs EXCEPT ![p] =
                      [@ EXCEPT !.role = "single", !.configurations = builtConfig(order).data,
                                !.pools = @ + 1, !.pool = "open", !.pc = "probing"]]
  /\ UNCHANGED <<inputs, process, serving, reader, maxCPUs>>

\* lines 70-116: the primary forks its workers and installs the handlers
StartPrimary(p) ==
  /\ procs[p].pc = "start"
  /\ procs[p].isPrimary
  /\ \E order \in Orders(DOMAIN env) :
       LET n == numCPUs(Get(builtConfig(order).data, K_workers), maxCPUs)
       IN  /\ ~validationThrows(builtConfig(order))
           /\ n # Num(1)
           /\ procs' = WithForks(p, [procs[p] EXCEPT
                                       !.role = "primary",
                                       !.configurations = builtConfig(order).data,
                                       !.forked = Iterations(n), !.pc = "supervising"],
                                 Iterations(n))
  /\ UNCHANGED <<inputs, process, serving, reader, maxCPUs>>

\* lines 70-74, 118-119 and 17: a forked process, startServer('worker') up to
\* the first await of createDbPool
StartWorker(p) ==
  /\ procs[p].pc = "start"
  /\ ~procs[p].isPrimary
  /\ \E order \in Orders(DOMAIN env) :
       /\ ~validationThrows(builtConfig(order))
       /\ numCPUs(Get(builtConfig(order).data, K_workers), maxCPUs) # Num(1)
       /\ procs' = [procs EXCEPT ![p] =
                      [@ EXCEPT !.role = "worker", !.configurations = builtConfig(order).data,
                                !.pools = @ + 1, !.pool = "open", !.pc = "probing"]]
  /\ UNCHANGED <<inputs, process, serving, reader, maxCPUs>>

\* the probe of createDbPool succeeds (its connection goes back to the pool);
\* createServer, addTransporter, app.listen
StartServerListens(p) ==
  /\ procs[p].pc = "probing"
  /\ procs' = [procs EXCEPT ![p] = [@ EXCEPT !.conns = 1, !.listening = TRUE,
                                               !.pc = "listening"]]
  /\ UNCHANGED <<inputs, process, serving, reader, maxCPUs>>

\* the probe of createDbPool fails: the pool is ended, the error leaves
\* startServer and the process ends
StartServerFails(p) ==
  /\ procs[p].pc = "probing"
  /\ procs' = [procs EXCEPT ![p] = [@ EXCEPT !.pool = "ended", !.pc = "exited", !.code = "1"]]
  /\ UNCHANGED <<inputs, process, serving, reader, maxCPUs>>

\* the pool of a serving process opens one more connection; mysql2 opens at
\* most connectionLimit of them per pool
PoolOpensConnection(p) ==
  /\ procs[p].pc = "listening"
  /\ procs[p].pool = "open"
  /\ procs[p].conns < poolOptions(procs[p].configurations).connectionLimit.v
  /\ procs' = [procs EXCEPT ![p].conns = @ + 1]
  /\ UNCHANGED <<inputs, process, serving, reader, maxCPUs>>

\* the workers forked by the 'exit' handler so far
Restarts == Cardinality({w \in DOMAIN procs : procs[w].reaped})

\* cluster.on('exit', ...): the primary forks a worker for one that ended
RestartWorker(w) ==
  /\ procs[0].pc = "supervising"
  /\ w # 0
  /\ procs[w].pc = "exited"
  /\ ~procs[w].reaped
  /\ Restarts < MaxRestarts
  /\ procs' = WithForks(w, [procs[w] EXCEPT !.reaped = TRUE], 1)
  /\ UNCHANGED <<inputs, process, serving, reader, maxCPUs>>

\* cluster.workers: the workers that have not ended
LiveWorkers == {w \in DOMAIN procs \ {0} : procs[w].pc # "exited"}

\* a process that ends takes the connections of its pool with it
Ended(q, code) ==
  [q EXCEPT !.pc = "exited", !.code = code, !.listening = FALSE, !.conns = 0,
            !.pool = IF q.pool = "open" THEN "gone" ELSE q.pool]

\* a shutdownHandler of a serving process that exits without waiting for
\* the server
ReceivedExitsAtOnce(q) ==
  CASE q.pc \in {"start", "probing"} -> Ended(q, "signal")
    [] q.pc = "supervising" -> [q EXCEPT !.signalled = TRUE]
    [] q.pc = "listening" -> Ended([q EXCEPT !.signalled = TRUE], "0")
    [] OTHER -> [q EXCEPT !.signalled = TRUE]

\* what SIGTERM or SIGINT does to process q itself. Lines 66-67 install the
\* handlers only after startServer has returned (after the fork loop in the
\* primary); before that the signal ends the process. In a serving process
\* the handler calls server.close(callback) (line 55), which stops the
\* server from accepting; a handler that runs again registers one more
\* callback.
Received(q) ==
  CASE q.pc \in {"start", "probing"} -> Ended(q, "signal")
    [] q.pc = "supervising" -> [q EXCEPT !.signalled = TRUE]
    [] q.pc = "listening" ->
         [q EXCEPT !.signalled = TRUE, !.closeCalled = TRUE, !.listening = FALSE,
                   !.pc = "closing"]
    [] OTHER -> [q EXCEPT !.signalled = TRUE]

\* SIGTERM or SIGINT arrives at process p from outside; the handler of the
\* primary (lines 49-52) sends SIGTERM to every worker of cluster.workers
Signal(p) ==
  /\ procs[p].pc # "exited"
  /\ procs' = [q \in DOMAIN procs |->
                IF q = p THEN Received(procs[p])
                ELSE IF procs[p].pc = "supervising" /\ q \in LiveWorkers
                     THEN [procs[q] EXCEPT !.pending = TRUE]
                     ELSE procs[q]]
  /\ UNCHANGED <<inputs, process, serving, reader, maxCPUs>>

\* the SIGTERM of worker.kill('SIGTERM') arrives at worker w
KillArrives(w) ==
  /\ procs[w].pending
  /\ procs' = [procs EXCEPT ![w] =
                 IF procs[w].pc = "exited" THEN [procs[w] EXCEPT !.pending = FALSE]
                 ELSE [Received(procs[w]) EXCEPT !.pending = FALSE]]
  /\ UNCHANGED <<inputs, process, serving, reader, maxCPUs>>

\* lines 55-62: the server has closed, the callback runs process.exit(0)
CloseCompletes(p) ==
  /\ procs[p].pc = "closing"
  /\ procs' = [procs EXCEPT ![p] = Ended([procs[p] EXCEPT !.closed = TRUE], "0")]
  /\ UNCHANGED <<inputs, process, serving, reader, maxCPUs>>

NextCluster ==
  \/ \E p \in DOMAIN procs : BuildConfigThrows(p)
  \/ \E p \in DOMAIN procs : StartSingle(p)
  \/ \E p \in DOMAIN procs : StartPrimary(p)
  \/ \E p \in DOMAIN procs : StartWorker(p)
  \/ \E p \in DOMAIN procs : StartServerListens(p)
  \/ \E p \in DOMAIN procs : StartServerFails(p)
  \/ \E p \in DOMAIN procs : PoolOpensConnection(p)
  \/ \E w \in DOMAIN procs : RestartWorker(w)

SpecCluster == InitCluster /\ [][NextCluster]_vars

(***************************************************************************)
(* The clustered index under SIGTERM and SIGINT                            *)
(***************************************************************************)
\* base.yaml of the runs with signals: the documented one, one or two workers
ShutdownBaseFiles == { Set(ScenarioBase, K_workers, Num(w)) : w \in {1, 2} }

InitShutdown ==
  /\ baseFile \in ShutdownBaseFiles
  /\ envFile = EmptyMap
  /\ env = EnvOf({})
  /\ maxCPUs \in 1..MaxCPUs
  /\ procs = [p \in {0} |-> NewProcess(TRUE)]
  /\ configurations = EmptyMap
  /\ envSource = Undef
  /\ result = NoResult
  /\ config = Undef
  /\ thrown = NoError
  /\ pool = "none"
  /\ conn = "none"
  /\ app = FALSE
  /\ transports = {}
  /\ listening = FALSE
  /\ events = <<>>
  /\ pc = "shutdown"
  /\ metricsHandler = "none"
  /\ dbReachable = TRUE
  /\ exchange = NoExchange
  /\ reader = NoReader

NextShutdown ==
  \/ \E p \in DOMAIN procs : StartSingle(p)
  \/ \E p \in DOMAIN procs : StartPrimary(p)
  \/ \E p \in DOMAIN procs : StartWorker(p)
  \/ \E p \in DOMAIN procs : StartServerListens(p)
  \/ \E p \in DOMAIN procs : StartServerFails(p)
  \/ \E w \in DOMAIN procs : RestartWorker(w)
  \/ \E p \in DOMAIN procs : Signal(p)
  \/ \E w \in DOMAIN procs : KillArrives(w)
  \/ \E p \in DOMAIN procs : CloseCompletes(p)

SpecShutdown == InitShutdown /\ [][NextShutdown]_vars

(***************************************************************************)
(* Vocabulary of the properties                                            *)
(***************************************************************************)
\* paths of the values of x that are not mappings
RECURSIVE LeafPaths(_)
LeafPaths(x) ==
  IF x.t = "map"
  THEN UNION { { <<k>> \o p : p \in LeafPaths(x.kv[k]) } : k \in DOMAIN x.kv }
  ELSE IF x.t = "undef" THEN {} ELSE { <<>> }

\* the three merged sources, lowest precedence first
Sources == <<baseFile, envFile, envSource>>

\* readFile threw
ReadFailed == thrown.kind = "read"

\* the raw configuration exists (the three addSource calls are done)
Merged == pc \notin {"addBase", "addEnvironmentFile", "addEnvironment"} /\ ~ReadFailed

\* the PORT default has been applied
Defaulted == Merged /\ pc # "addDefault"

\* safeParse has run
Validated == Defaulted /\ pc # "validate"

\* source j holds a non-mapping value at p
DefinesLeaf(j, p) == GetPath(Sources[j], p).t \notin {"undef", "map"}

\* source j replaces what earlier sources hold at p: it holds a value at p
\* itself, or a non-mapping value at a proper prefix of p
Replaces(j, p) ==
  \/ GetPath(Sources[j], p).t # "undef"
  \/ \E n \in 0..(Len(p) - 1) : GetPath(Sources[j], SubSeq(p, 1, n)).t \notin {"undef", "map"}

\* the paths named by the violations buildConfig reported
ReportedPaths == { thrown.entries[i].path : i \in 1..Len(thrown.entries) }

ValidationFailed == Validated /\ thrown.kind = "validation"

Resolved == Validated /\ result.success

P_port == K_port

P_logs_lokiUrl == join(<<K_logs, K_lokiUrl>>, <<".">>)

(***************************************************************************)
(* C1. The raw configuration is base, then the environment file, then the  *)
(* environment mapping, deep-merged in that order.                         *)
(***************************************************************************)
\* C1 as stated: before the PORT default, every non-mapping value of a source
\* that no later source defines at the same leaf path is present unchanged
\* in the raw configuration (the latest definition of a leaf wins, everything
\* else of the earlier sources survives).
C1_LatestLeafWinsAndRestSurvives ==
  pc = "addDefault" =>
    \A i \in 1..3 : \A p \in LeafPaths(Sources[i]) :
      (\A j \in (i + 1)..3 : ~DefinesLeaf(j, p))
        => GetPath(configurations, p) = GetPath(Sources[i], p)

\* C1 amended: before the PORT default, every non-mapping value of a source
\* is present unchanged in the raw configuration unless a later source holds
\* a value at the same path or a non-mapping value at one of its ancestors;
\* and every scalar of the raw configuration is the value some source holds
\* at that path.
C1_DeepMergeInOrder ==
  pc = "addDefault" =>
    /\ \A i \in 1..3 : \A p \in LeafPaths(Sources[i]) :
         (\A j \in (i + 1)..3 : ~Replaces(j, p))
           => GetPath(configurations, p) = GetPath(Sources[i], p)
    /\ \A p \in LeafPaths(configurations) :
         GetPath(configurations, p).t \notin {"arr", "map"}
           => \E i \in 1..3 : GetPath(Sources[i], p) = GetPath(configurations, p)

\* a sibling inside a nested mapping survives a partial override, and the
\* overriding leaf wins
C1_Witness ==
  /\ pc = "addDefault"
  /\ GetPath(baseFile, <<K_database, K_host>>) = Str(V_h)
  /\ GetPath(envFile, <<K_database, K_port>>) = Num(3308)
  /\ GetPath(envSource, <<K_database, K_host>>) = Str(V_db)
  /\ GetPath(configurations, <<K_database, K_host>>) = Str(V_db)
  /\ GetPath(configurations, <<K_database, K_port>>) = Num(3308)
  /\ GetPath(configurations, <<K_database, K_username>>) = Str(V_u)

(***************************************************************************)
(* C2. A non-empty PORT overrides every other source of the port.          *)
(***************************************************************************)
PortIsSet == E_PORT \in DOMAIN env /\ env[E_PORT] # <<>>

\* C2: once the PORT default has been applied, a non-empty PORT is the port
\* handed to validation, whatever the files and APP_PORT say; PORT=9999
\* resolves to the port 9999.
C2_PortOverrideWins ==
  (Defaulted /\ PortIsSet) =>
    /\ Get(configurations, K_port) = Str(env[E_PORT])
    /\ (Validated /\ env[E_PORT] = V_9999) => (Resolved => Get(config, K_port) = Num(9999))

C2_Witness ==
  /\ Resolved
  /\ Get(baseFile, K_port) = Num(8080)
  /\ E_APP_PORT \in DOMAIN env /\ env[E_APP_PORT] = V_9090
  /\ PortIsSet /\ env[E_PORT] = V_9999
  /\ Get(envSource, K_port) = Str(V_9090)
  /\ Get(config, K_port) = Num(9999)

(***************************************************************************)
(* C3-C5. Values that arrive as strings from the environment layer.        *)
(***************************************************************************)
\* the configuration of the two files alone passes validation
FilesAloneValid == safeParse(deepMerge(deepMerge(EmptyMap, baseFile), envFile)).success

\* process.env holds exactly the one variable name=value
OnlyVariable(name, value) == DOMAIN env = {name} /\ env[name] = value

\* C3: with an otherwise valid configuration, APP_DATABASE__CONNECTIONLIMIT=25
\* resolves, with database.connectionLimit the number 25.
C3_ConnectionLimitFromEnvironment ==
  (Validated /\ FilesAloneValid /\ OnlyVariable(E_APP_DATABASE__CONNECTIONLIMIT, V_25)) =>
    /\ Resolved
    /\ GetPath(config, <<K_database, K_connectionLimit>>) = Num(25)

\* C4: a digit string given through APP_PORT or APP_DATABASE__PORT is accepted
\* and resolves to the number it denotes.
C4_NumericFieldsFromEnvironment ==
  (Validated /\ FilesAloneValid) =>
    /\ OnlyVariable(E_APP_PORT, V_9090) =>
         (Resolved /\ Get(config, K_port) = Num(9090))
    /\ OnlyVariable(E_APP_DATABASE__PORT, V_3307) =>
         (Resolved /\ GetPath(config, <<K_database, K_port>>) = Num(3307))

\* C5: the strings "true" and "false" given through the environment layer for
\* a boolean logs field resolve to the booleans true and false.
C5_BooleanStringsFromEnvironment ==
  (Validated /\ FilesAloneValid) =>
    /\ OnlyVariable(E_APP_LOGS__LOKI, V_false) =>
         (Resolved /\ GetPath(config, <<K_logs, K_loki>>) = Bool(FALSE))
    /\ OnlyVariable(E_APP_LOGS__TERMINAL, V_false) =>
         (Resolved /\ GetPath(config, <<K_logs, K_terminal>>) = Bool(FALSE))
    /\ OnlyVariable(E_APP_LOGS__DAILY_ROTATE_FILE, V_false) =>
         (Resolved /\ GetPath(config, <<K_logs, K_dailyRotateFile>>) = Bool(FALSE))
    /\ (OnlyVariable(E_APP_LOGS__LOKI, V_true) /\ Resolved) =>
         GetPath(config, <<K_logs, K_loki>>) = Bool(TRUE)

(***************************************************************************)
(* C6. loki requires lokiUrl.                                              *)
(***************************************************************************)
\* the logs mapping handed to validation
LogsInput == Get(configurations, K_logs)

\* the merged input has logs.loki true (a value that coerces to true) and
\* no logs.lokiUrl
LokiWithoutUrl ==
  /\ LogsInput.t = "map"
  /\ Truthy(Get(LogsInput, K_loki))
  /\ ~Has(LogsInput, K_lokiUrl)

\* the optional string fields of logs are absent or strings
LogsStringsWellTyped ==
  \A k \in {K_lokiAppName, K_lokiEndpointToken} : Get(LogsInput, k).t \in {"undef", "str"}

LokiImpliesUrlInResult ==
  Resolved =>
    (Truthy(GetPath(config, <<K_logs, K_loki>>)) => Has(Get(config, K_logs), K_lokiUrl))

Position(e) == CHOOSE i \in 1..Len(events) : events[i] = e

Happened(e) == \E i \in 1..Len(events) : events[i] = e

\* C7: listening happens only after buildConfig returned and the database
\* probe succeeded, in that order; a failed validation throws and leaves no
\* pool, no app, no transport and no listener.
C7_NoPartialStart ==
  /\ listening =>
       /\ result.success /\ pool = "open" /\ conn = "released"
       /\ Happened("buildConfig") /\ Happened("probed") /\ Happened("listen")
       /\ Position("buildConfig") < Position("createPool")
       /\ Position("createPool") < Position("probed")
       /\ Position("probed") < Position("listen")
  /\ (Validated /\ ~result.success) =>
       /\ pc = "failed" /\ thrown.kind = "validation" /\ thrown.entries # <<>>
       /\ config = Undef
       /\ pool = "none" /\ conn = "none" /\ ~app /\ transports = {} /\ ~listening
       /\ events = <<>>

C7_Witness ==
  /\ pc = "listening"
  /\ listening
  /\ events = <<"buildConfig", "createPool", "probed", "createServer", "addTransporter", "listen">>

(***************************************************************************)
(* C8. Defaults.                                                           *)
(***************************************************************************)
DatabaseInput == Get(configurations, K_database)

\* workers, database.connectionLimit and database.port are absent from the
\* merged configuration
DefaultedFieldsAbsent ==
  /\ ~Has(configurations, K_workers)
  /\ DatabaseInput.t = "map"
  /\ ~Has(DatabaseInput, K_connectionLimit)
  /\ ~Has(DatabaseInput, K_port)

\* the merged configuration with the three fields supplied
WithDefaultedFieldsSupplied ==
  Set(Set(configurations, K_workers, Num(1)), K_database,
      Set(Set(DatabaseInput, K_connectionLimit, Num(1)), K_port, Num(2000)))

\* the value x of a field of the given type passes through validation as is
SuppliedUnchanged(path) ==
  LET x == GetPath(configurations, path)
  IN  x.t \in {"str", "num", "bool"} => GetPath(config, path) = x

Dotted(path) == join(path, <<".">>)

\* field rules of the schema that the mapping x breaks, by dotted path: a
\* missing required field, a wrong type, a failed range or format check
RequiredString(x, path) ==
  IF GetPath(x, path).t # "str" THEN {Dotted(path)} ELSE {}

OptionalString(x, path) ==
  IF GetPath(x, path).t \notin {"undef", "str"} THEN {Dotted(path)} ELSE {}

OptionalNumber(x, path) ==
  IF GetPath(x, path).t \notin {"undef", "num"} THEN {Dotted(path)} ELSE {}

BelowMinimum(x, path, least) ==
  LET v == GetPath(x, path)
  IN  IF v.t = "num" /\ v.v < least THEN {Dotted(path)} ELSE {}

DatabaseViolations(x) ==
  IF Get(x, K_database).t # "map" THEN {Dotted(<<K_database>>)}
  ELSE RequiredString(x, <<K_database, K_host>>)
       \cup RequiredString(x, <<K_database, K_username>>)
       \cup RequiredString(x, <<K_database, K_password>>)
       \cup OptionalNumber(x, <<K_database, K_connectionLimit>>)
       \cup OptionalNumber(x, <<K_database, K_port>>)
       \cup BelowMinimum(x, <<K_database, K_port>>, 1000)

LogsTypeViolations(x) ==
  IF Get(x, K_logs).t # "map" THEN {Dotted(<<K_logs>>)}
  ELSE OptionalString(x, <<K_logs, K_lokiUrl>>)
       \cup OptionalString(x, <<K_logs, K_lokiAppName>>)
       \cup OptionalString(x, <<K_logs, K_lokiEndpointToken>>)

LogsFormatViolations(x) ==
  LET url == GetPath(x, <<K_logs, K_lokiUrl>>)
  IN  IF url.t = "str" /\ ~IsUrl(url.v) THEN {P_logs_lokiUrl} ELSE {}

\* the loki/lokiUrl rule is broken
RefinementViolations(x) ==
  IF /\ Get(x, K_logs).t = "map"
     /\ Truthy(GetPath(x, <<K_logs, K_loki>>))
     /\ GetPath(x, <<K_logs, K_lokiUrl>>).t \in {"undef", "null"}
          \/ GetPath(x, <<K_logs, K_lokiUrl>>) = Str(<<>>)
  THEN {P_logs_lokiUrl} ELSE {}

PortViolations(x) ==
  LET n == ToNumber(Get(x, K_port))
  IN  IF n.t = "num" /\ n.v >= 1000 THEN {} ELSE {Dotted(<<K_port>>)}

FieldViolations(x) ==
  PortViolations(x)
  \cup RequiredString(x, <<K_tenant>>)
  \cup OptionalNumber(x, <<K_workers>>)
  \cup DatabaseViolations(x)
  \cup LogsTypeViolations(x)
  \cup LogsFormatViolations(x)

NoLayerSetsPort == \A i \in 1..3 : ~Has(Sources[i], K_port)

\* C10: when no layer sets port and PORT is unset or empty, resolution fails
\* and a violation with path port is reported.
C10_MissingPortRejected ==
  (Validated /\ NoLayerSetsPort /\ ~PortIsSet) =>
    (ValidationFailed /\ P_port \in ReportedPaths)

C10_Witness ==
  /\ Validated
  /\ NoLayerSetsPort
  /\ E_PORT \in DOMAIN env /\ env[E_PORT] = <<>>
  /\ Get(baseFile, K_tenant) = Str(V_t1)
  /\ ValidationFailed
  /\ ReportedPaths = {P_port}

(***************************************************************************)
(* C11. The ports of a returned configuration.                             *)
(***************************************************************************)
IsInteger(x) == x.t = "num" /\ x.d = 0

\* the port of the merged input, as the number validation makes of it
MergedPort == ToNumber(Get(configurations, K_port))

\* C11: every configuration buildConfig returns has an integer port of at
\* least 1000 and an integer database.port of at least 1000, and a merged
\* input whose port is a number below 1000 or not an integer is rejected.
C11_PortsAreIntegersFrom1000 ==
  /\ Resolved =>
       /\ IsInteger(Get(config, K_port)) /\ Get(config, K_port).v >= 1000
       /\ IsInteger(GetPath(config, <<K_database, K_port>>))
       /\ GetPath(config, <<K_database, K_port>>).v >= 1000
  /\ (Validated /\ MergedPort.t = "num" /\ (MergedPort.v < 1000 \/ ~IsInteger(MergedPort)))
       => ValidationFailed

(***************************************************************************)
(* C12. The tenant of a returned configuration.                            *)
(***************************************************************************)
\* C12: every configuration buildConfig returns has a non-empty tenant
\* string; a merged input whose tenant is the empty string fails validation;
\* no pool is created with an empty database name.
C12_TenantNonEmpty ==
  /\ Resolved => (Get(config, K_tenant).t = "str" /\ Get(config, K_tenant).v # <<>>)
  /\ (Validated /\ Get(configurations, K_tenant) = Str(<<>>)) => ValidationFailed
  /\ pool # "none" => poolOptions(config).database # Str(<<>>)

(***************************************************************************)
(* C13. Merging the same source twice.                                     *)
(***************************************************************************)
\* the mappings this run hands to addSource: the contents of the two files
\* and what readFromEnvironment returned
MergeSources == {baseFile, envFile, envSource} \ {Unreadable}

\* C13: whatever the configuration merged so far, adding a source a second
\* time right after the first gives the configuration the first call gave.
C13_MergeIdempotent ==
  \A S \in MergeSources :
    addSource(addSource(configurations, S), S) = addSource(configurations, S)

\* the environment file has been merged into the base, changing a nested
\* value of it, and merging it again changes nothing
C13_Witness ==
  /\ pc = "addEnvironment"
  /\ baseFile = ScenarioBase
  /\ GetPath(envFile, <<K_database, K_port>>) = Num(3308)
  /\ configurations = addSource(addSource(EmptyMap, baseFile), envFile)
  /\ configurations # addSource(EmptyMap, baseFile)
  /\ GetPath(configurations, <<K_database, K_host>>) = Str(V_h)
  /\ addSource(configurations, envFile) = configurations

(***************************************************************************)
(* C19. A configuration file that cannot be read.                          *)
(***************************************************************************)
\* readFile has been called on a file that is missing or is not YAML
BaseUnreadable == baseFile = Unreadable /\ pc # "addBase"

EnvironmentFileUnreadable ==
  /\ baseFile # Unreadable
  /\ envFile = Unreadable
  /\ pc \notin {"addBase", "addEnvironmentFile"}

\* C19: once readFile has met an unreadable base.yaml or {environment}.yaml,
\* buildConfig has failed with an error and returned nothing: the sources
\* after the file were not merged, the environment was not read, the PORT
\* default and validation were not applied, and nothing was started.
C19_UnreadableFileAborts ==
  (BaseUnreadable \/ EnvironmentFileUnreadable) =>
    /\ pc = "failed" /\ thrown = ReadError
    /\ config = Undef
    /\ configurations = (IF BaseUnreadable THEN EmptyMap ELSE addSource(EmptyMap, baseFile))
    /\ envSource = Undef
    /\ result = NoResult
    /\ pool = "none" /\ conn = "none" /\ ~app /\ transports = {} /\ ~listening
    /\ events = <<>>

\* the environment file is unreadable, the base is the documented one, and
\* PORT and an APP_ variable are set but were never looked at
C19_Witness ==
  /\ EnvironmentFileUnreadable
  /\ baseFile = ScenarioBase
  /\ PortIsSet
  /\ E_APP_PORT \in DOMAIN env
  /\ pc = "failed"
  /\ Get(configurations, K_port) = Num(8080)

(***************************************************************************)
(* C14. GET /metrics.                                                      *)
(***************************************************************************)
ConfiguredToken == GetPath(config, <<K_logs, K_lokiEndpointToken>>)

\* the header "Bearer <the configured token>"
BearerOfConfiguredToken == Str(Bearer \o <<" ">> \o ConfiguredToken.v)

\* C14: GET /metrics sends the metrics only to a request whose Authorization
\* header is "Bearer <token>" with the configured, non-empty token; without
\* the header the answer is 401, with a header but no configured token 503,
\* and with a wrong scheme or token 401.
C14_MetricsOnlyForBearerToken ==
  exchange.path = "/metrics" =>
    /\ exchange.response.body = MetricsBody =>
         (Truthy(ConfiguredToken) /\ exchange.authorization = BearerOfConfiguredToken)
    /\ ~Truthy(exchange.authorization) => exchange.response.status = 401
    /\ (Truthy(exchange.authorization) /\ ~Truthy(ConfiguredToken))
         => exchange.response.status = 503
    /\ (/\ Truthy(exchange.authorization)
        /\ Truthy(ConfiguredToken)
        /\ exchange.authorization # BearerOfConfiguredToken)
         => exchange.response.status = 401

(***************************************************************************)
(* C20. GET /health.                                                       *)
(***************************************************************************)
\* C20: every answer of the listening server to GET /health has status 200
\* and the body {ok: true}, whatever the Authorization header, the
\* configuration and the state of the database.
C20_HealthAlwaysOk ==
  exchange.path = "/health" =>
    /\ listening
    /\ exchange.response.status = 200
    /\ exchange.response.body = Map(K_ok :> Bool(TRUE))

\* a request without credentials, answered after the database was lost, by
\* a server that protects its metrics with a token
C20_Witness ==
  /\ exchange.path = "/health"
  /\ exchange.authorization = Undef
  /\ ~dbReachable
  /\ ConfiguredToken = Str(V_tok)
  /\ exchange.response = Response(200, Map(K_ok :> Bool(TRUE)))

(***************************************************************************)
(* C18. readFromEnvironment with equal separators.                         *)
(***************************************************************************)
\* C18: once a call of readFromEnvironment whose snake-case separator equals
\* its key separator has made its first step, it has thrown, no environment
\* variable has been examined and there is no mapping; a call with
\* different separators (or without a snake-case separator) does not throw.
C18_EqualSeparatorsFailFast ==
  reader.status \notin {"none", "called"} =>
    IF reader.snakeCaseSeparator = reader.separator
    THEN /\ reader.status = "thrown"
         /\ reader.examined = 0
         /\ reader.config = Undef
         /\ \A order \in Orders(DOMAIN env) :
              readFromEnvironment(env, order, EnvPrefix, EnvPrefixSeparator,
                                  reader.separator, reader.snakeCaseSeparator) = Thrown
    ELSE /\ reader.status # "thrown"
         /\ reader.status = "returned" =>
              reader.config = readFromEnvironment(env, reader.order, EnvPrefix,
                                                  EnvPrefixSeparator, reader.separator,
                                                  reader.snakeCaseSeparator)

\* the call threw although process.env holds variables with the prefix
C18_Witness ==
  /\ reader.status = "thrown"
  /\ reader.separator = <<"_","_">>
  /\ reader.snakeCaseSeparator = <<"_","_">>
  /\ E_APP_PORT \in DOMAIN env
  /\ E_APP_DATABASE__HOST \in DOMAIN env

(***************************************************************************)
(* C15. The number of serving processes.                                   *)
(***************************************************************************)
\* the first process has resolved its configuration and chosen its mode
ModeChosen == 0 \in DOMAIN procs /\ procs[0].role # "none"

RequestedWorkers == Get(procs[0].configurations, K_workers)

\* the count as the claim defines it: all CPUs for workers <= 0, otherwise
\* the smaller of workers and the number of CPUs
ServingCount ==
  IF NumLE(RequestedWorkers, 0) \/ ~NumLE(RequestedWorkers, maxCPUs)
  THEN Num(maxCPUs)
  ELSE RequestedWorkers

\* C15: the count lies between 1 and the number of CPUs; with a count of 1
\* the process serves alone and nothing is ever forked; otherwise the
\* process is the primary and has forked exactly that many workers at
\* startup.
C15_ServingProcessCount ==
  ModeChosen =>
    /\ ServingCount.v >= 1 /\ NumLE(ServingCount, maxCPUs)
    /\ ServingCount = Num(1) => (procs[0].role = "single" /\ DOMAIN procs = {0})
    /\ ServingCount # Num(1) =>
         (procs[0].role = "primary" /\ Num(procs[0].forked) = ServingCount)

(***************************************************************************)
(* C17. Pools and listeners in cluster mode.                               *)
(***************************************************************************)
ClusterMode == 0 \in DOMAIN procs /\ procs[0].role = "primary"

WorkerIds == DOMAIN procs \ {0}

\* the workers that have entered startServer and not ended
StartedWorkers == {w \in WorkerIds : procs[w].pc \in {"probing", "listening", "closing"}}

OpenPools == {p \in DOMAIN procs : procs[p].pool = "open"}

RECURSIVE TotalConnections(_)
TotalConnections(P) ==
  IF P = {} THEN 0
  ELSE LET p == CHOOSE q \in P : TRUE
       IN  procs[p].conns + TotalConnections(P \ {p})

ConnectionLimit == GetPath(procs[0].configurations, <<K_database, K_connectionLimit>>).v

C16_WorkersFromEnvironment ==
  (/\ 0 \in DOMAIN procs
   /\ procs[0].pc # "start"
   /\ FilesAloneValid
   /\ OnlyVariable(E_APP_WORKERS, V_2)) =>
    /\ procs[0].role # "none"
    /\ Get(procs[0].configurations, K_workers) = Num(2)
    /\ IF maxCPUs = 1
       THEN procs[0].role = "single"
       ELSE procs[0].role = "primary" /\ procs[0].forked = 2

(***************************************************************************)
(* C23. createDbPool leaves no dangling resource.                          *)
(***************************************************************************)
\* createDbPool has returned its pool to index.ts
PoolReturned == pc \in {"createServer", "addTransporter", "listen", "listening"}

\* the 'Database connection failed' error has left createDbPool
DatabaseErrorPropagated == thrown.kind = "database"

\* C23: when the error of a failed probe has left createDbPool the pool has
\* been ended and was never returned (nothing after createDbPool ran); while
\* the catch block has not finished, no error has propagated; and a pool
\* that was returned is open with its probe connection released.
C23_NoDanglingPool ==
  /\ DatabaseErrorPropagated =>
       /\ pool = "ended"
       /\ pc = "failed"
       /\ ~PoolReturned /\ ~app /\ transports = {} /\ ~listening
       /\ ~Happened("probed")
  /\ pc = "endPool" => (thrown = NoError /\ pool = "open" /\ conn \in {"none", "held"})
  /\ PoolReturned => (pool = "open" /\ conn = "released" /\ thrown = NoError)

\* the ping of the probe connection failed: the error has propagated, the
\* pool is ended, and the connection was never released
C23_Witness ==
  /\ DatabaseErrorPropagated
  /\ conn = "held"
  /\ pool = "ended"
  /\ events = <<"buildConfig", "createPool">>

(***************************************************************************)
(* C24. The order in which process.env is enumerated.                      *)
(***************************************************************************)
\* what buildConfig would have handed back had process.env been enumerated
\* in the given order
ResultInOrder(order) == safeParse(mergedConfigurations(baseFile, envFile, env, order))

\* C24: whatever the order in which this run enumerated the environment
\* variables, every other order gives the same environment mapping and the
\* same outcome of buildConfig.
C24_OrderIndependent ==
  Validated =>
    \A order \in Orders(DOMAIN env) :
      /\ readFromEnvironment(env, order, EnvPrefix, EnvPrefixSeparator, EnvSeparator,
                             EnvSnakeCaseSeparator) = envSource
      /\ ResultInOrder(order) = result

(***************************************************************************)
(* C25: what readFromEnvironment returns                                   *)
(***************************************************************************)
ReaderReturned == reader.status = "returned"

\* the variable is selected: its name starts with prefix + prefixSeparator
Selected(key) == startsWith(key, EnvPrefix \o EnvPrefixSeparator)

\* the segments of a selected name, split on the key separator
Segments(key) ==
  split(SubSeq(key, Len(EnvPrefix \o EnvPrefixSeparator) + 1, Len(key)), reader.separator)

AllSegmentsNonEmpty(key) == \A i \in 1..Len(Segments(key)) : Segments(key)[i] # <<>>

\* conv of the claim: lower case, and camelCase when a snake-case separator
\* is given
Conv(segment) ==
  IF reader.snakeCaseSeparator # <<>> THEN replaceSnake(toLowerCase(segment))
  ELSE toLowerCase(segment)

\* the path (conv(S1), ..., conv(Sn)) over the non-empty segments
RECURSIVE ConvPath(_)
ConvPath(segments) ==
  IF segments = <<>> THEN <<>>
  ELSE IF Head(segments) = <<>> THEN ConvPath(Tail(segments))
       ELSE <<Conv(Head(segments))>> \o ConvPath(Tail(segments))

\* the variable writes into the mapping: selected, first segment not empty
Contributes(key) == Selected(key) /\ Segments(key)[1] # <<>>

IsPathPrefix(p, q) == Len(p) <= Len(q) /\ SubSeq(q, 1, Len(p)) = p

PathsCollide(p, q) == IsPathPrefix(p, q) \/ IsPathPrefix(q, p)

\* the place of a name in the enumeration of process.env
PositionOf(key) == CHOOSE i \in 1..Len(reader.order) : reader.order[i] = key

\* a variable enumerated after key writes at, above or below key's path
OverwrittenLater(key) ==
  \E other \in DOMAIN env :
    /\ other # key
    /\ Contributes(other)
    /\ PositionOf(other) > PositionOf(key)
    /\ PathsCollide(ConvPath(Segments(key)), ConvPath(Segments(other)))

\* every value of the returned mapping is the value of a selected variable
\* at the path of its segments
EveryLeafFromSelected ==
  \A p \in LeafPaths(reader.config) :
    \E key \in DOMAIN env :
      /\ Contributes(key)
      /\ ConvPath(Segments(key)) = p
      /\ GetPath(reader.config, p) = Str(env[key])

\* C25 as stated: the returned mapping holds the value of every selected
\* variable (non-empty segments) at the path of its converted segments, and
\* nothing comes from a variable without the prefix.
C25_EverySelectedVariableHeld ==
  ReaderReturned =>
    /\ \A key \in DOMAIN env :
         (Selected(key) /\ AllSegmentsNonEmpty(key))
           => GetPath(reader.config, ConvPath(Segments(key))) = Str(env[key])
    /\ EveryLeafFromSelected

\* C25 (amended): the returned mapping holds the value of a selected variable
\* (non-empty segments) at the path of its converted segments unless a
\* variable enumerated later writes at, above or below that path; every
\* value of the mapping comes from a selected variable.
C25_SelectedVariableHeldUnlessOverwritten ==
  ReaderReturned =>
    /\ \A key \in DOMAIN env :
         (Selected(key) /\ AllSegmentsNonEmpty(key) /\ ~OverwrittenLater(key))
           => GetPath(reader.config, ConvPath(Segments(key))) = Str(env[key])
    /\ EveryLeafFromSelected

C25_Witness ==
  /\ ReaderReturned
  /\ reader.separator = EnvSeparator
  /\ reader.snakeCaseSeparator = EnvSnakeCaseSeparator
  /\ DOMAIN env = {E_APP_DATABASE__CONNECTION_LIMIT, E_APPLE}
  /\ reader.config = Map(K_database :> Map(K_connectionLimit :> Str(V_25)))

(***************************************************************************)
(* C26: a mapping that meets a scalar replaces it                          *)
(***************************************************************************)
\* the mapping that holds val at path and nothing else
RECURSIVE Nest(_, _)
Nest(path, val) ==
  IF path = <<>> THEN val ELSE Map(Head(path) :> Nest(Tail(path), val))

\* the files of the pools that are mappings, as targets of a merge
MergeTargets == { f \in BaseFiles \cup EnvironmentFiles : f.t = "map" }

\* key holds a mapping in source and a value that is no mapping in target
MappingMeetsScalar(target, source, key) ==
  /\ Has(source, key) /\ Get(source, key).t = "map"
  /\ Has(target, key) /\ ~IsObject(Get(target, key))

\* an iteration of the loop whose variable has an intermediate segment at a
\* key that holds a string leaves, at that key, a mapping with the variable's
\* value beneath it and nothing else
ScalarReplacedByIteration ==
  (reader.status = "looping" /\ reader'.examined = reader.examined + 1) =>
    LET key == reader.order[reader'.examined]
        path == ConvPath(Segments(key))
    IN  Contributes(key) =>
          \A n \in 1..(Len(path) - 1) :
            GetPath(reader.config, SubSeq(path, 1, n)).t = "str"
              => GetPath(reader'.config, SubSeq(path, 1, n))
                   = Nest(SubSeq(path, n + 1, Len(path)), Str(env[key]))

\* deepMerge of the returned mapping into a target: where a mapping of the
\* source meets a scalar of the target the result holds the source's mapping
ScalarReplacedByMerge ==
  ReaderReturned =>
    \A target \in MergeTargets : \A key \in DOMAIN reader.config.kv :
      MappingMeetsScalar(target, reader.config, key)
        => Get(deepMerge(target, reader.config), key) = Get(reader.config, key)

\* C26: in readFromEnvironment an intermediate segment that names a key
\* holding a non-mapping value replaces it by a new mapping with the later
\* variable's value beneath it, the earlier scalar being discarded; deepMerge
\* does the same when a source mapping meets a scalar in the target.
C26_MappingReplacesScalar ==
  /\ [][ScalarReplacedByIteration]_vars
  /\ []ScalarReplacedByMerge

C26_Witness ==
  /\ ReaderReturned
  /\ reader.separator = EnvSeparator
  /\ reader.order = <<E_APP_DATABASE, E_APP_DATABASE__HOST>>
  /\ reader.config = Map(K_database :> Map(K_host :> Str(V_db)))
  /\ \E target \in MergeTargets :
       /\ MappingMeetsScalar(target, reader.config, K_database)
       /\ Get(deepMerge(target, reader.config), K_database) = Map(K_host :> Str(V_db))

(***************************************************************************)
(* C27: what addDefault leaves alone                                       *)
(***************************************************************************)
\* the step of buildConfig that applies .addDefault("port", process.env.PORT)
AddDefaultStep == pc = "addDefault" /\ pc' = "validate"

\* every top-level key but name holds after the step what it held before
OtherKeysKept(before, after, name) ==
  /\ DOMAIN after.kv = DOMAIN before.kv \cup {name}
  /\ \A key \in DOMAIN before.kv \ {name} : after.kv[key] = before.kv[key]

AddDefaultFrame ==
  AddDefaultStep =>
    IF PortIsSet
    THEN /\ Get(configurations', K_port) = Str(env[E_PORT])
         /\ OtherKeysKept(configurations, configurations', K_port)
    ELSE configurations' = configurations

\* C27: addDefault with a falsy value (PORT unset or empty) leaves the whole
\* configuration unchanged; with a truthy value it changes the top-level key
\* port and no other key, nested mappings included.
C27_AddDefaultChangesOnlyItsKey == [][AddDefaultFrame]_vars

C27_Witness ==
  /\ pc = "validate"
  /\ DOMAIN env = {E_PORT, E_APP_DATABASE__HOST}
  /\ env[E_PORT] = V_9999
  /\ baseFile = ScenarioBase
  /\ envFile = EmptyMap
  /\ configurations = Set(Set(baseFile, K_database,
                              Set(Get(baseFile, K_database), K_host, Str(V_db))),
                          K_port, Str(V_9999))

(***************************************************************************)
(* C28: the configuration is resolved once and then only read              *)
(***************************************************************************)
\* the number of times buildConfig has returned
TimesResolved == Cardinality({ i \in 1..Len(events) : events[i] = "buildConfig" })

\* a component that is handed the configuration has started
ConfigurationInUse == pool # "none" \/ app \/ transports # {} \/ listening

\* buildConfig returns at most once, and whatever uses the configuration
\* starts after it has returned
ResolvedOnceAndFirst ==
  /\ TimesResolved <= 1
  /\ ConfigurationInUse =>
       /\ TimesResolved = 1
       /\ events[1] = "buildConfig"
       /\ config # Undef
       /\ config = result.data

\* once buildConfig has returned, no step changes the configuration
ConfigurationOnlyRead == config # Undef => config' = config

\* C28: within one process the configuration is resolved exactly once, before
\* the pool is created and before the server listens, and no later step of
\* the startup (createDbPool, createServer, addTransporter, listen) changes
\* the resolved configuration.
C28_ResolvedOnceThenReadOnly ==
  /\ []ResolvedOnceAndFirst
  /\ [][ConfigurationOnlyRead]_vars

C28_Witness ==
  /\ pc = "listening"
  /\ metricsHandler = "bearer"
  /\ transports = {"console"}
  /\ TimesResolved = 1
  /\ config = result.data
  /\ Get(config, K_logs) = ScenarioLogs

(***************************************************************************)
(* C29: the transports of the logger                                       *)
(***************************************************************************)
\* addTransporter has returned
TransportsAdded == pc \in {"listen", "listening"}

ResolvedLogs == Get(config, K_logs)

\* C29: after startup the logger has a console transport iff logs.terminal,
\* a daily-rotate-file transport iff logs.dailyRotateFile and a Loki
\* transport iff logs.loki, and a Loki transport has a non-empty host;
\* before addTransporter the logger has no transport.
C29_TransportsAsConfigured ==
  /\ TransportsAdded =>
       /\ transports \subseteq {"console", "dailyRotateFile", "loki"}
       /\ "console" \in transports <=> Get(ResolvedLogs, K_terminal) = Bool(TRUE)
       /\ "dailyRotateFile" \in transports <=> Get(ResolvedLogs, K_dailyRotateFile) = Bool(TRUE)
       /\ "loki" \in transports <=> Get(ResolvedLogs, K_loki) = Bool(TRUE)
       /\ "loki" \in transports =>
            /\ lokiHost(ResolvedLogs).t = "str"
            /\ lokiHost(ResolvedLogs).v # <<>>
  /\ ~TransportsAdded => transports = {}

C29_Witness ==
  /\ pc = "listening"
  /\ transports = {"console", "loki"}
  /\ lokiHost(ResolvedLogs) = Str(V_lokiHost)

(***************************************************************************)
(* C21: shutdown of the cluster                                            *)
(***************************************************************************)
\* the shutdownHandler of the primary has run
ShutdownRequested == ClusterMode /\ procs[0].signalled

\* the step forks no process
NoFork == DOMAIN procs' = DOMAIN procs

\* C21: once the primary has received SIGTERM or SIGINT no new worker is
\* forked (the part of the shutdown that a finite run can break; the cluster
\* can only come to have no running worker if this holds).
C21_NoForkAfterShutdownSignal == [][ShutdownRequested => NoFork]_vars

(***************************************************************************)
(* C22: shutdown of a serving process                                      *)
(***************************************************************************)
ServingProcesses == {p \in DOMAIN procs : procs[p].role \in {"single", "worker"}}

====
